---- MODULE Spec2Model ----
(***************************************************************************)
(* Verification model of the floneum / kalosm inference runtime.           *)
(*                                                                         *)
(*   SpecSessions : the plugin's session registry, InferenceSessions       *)
(*                  (src/plugin/src/sessions.rs): two Slab tables, the     *)
(*                  create / remove / infer / get_embedding operations     *)
(*                  and the inference callback with its stop sequence.     *)
(*   SpecFallback : the temperature ladder of the speech decoder,          *)
(*                  Decoder::decode_with_fallback                          *)
(*                  (src/models/rwhisper/src/model.rs).                    *)
(*   SpecRun      : Decoder::run of the same file with the consumer of its *)
(*                  stream: chunking, encode, the ladder with the steps of *)
(*                  each decode, the non-speech drop, the sentence         *)
(*                  fragment and the send of each Segment.  SpecRunFair    *)
(*                  adds weak fairness of run's steps.                     *)
(*   SpecCache    : LlamaCache (src/models/kalosm-llama/src/raw/cache.rs): *)
(*                  new, decode-step append, clear, get_tensor_map and     *)
(*                  from_tensor_map.                                       *)
(*   SpecDecode   : the steps of one Decoder::decode call (model.rs):      *)
(*                  the suppression mask, the arg-max of temperature 0,    *)
(*                  sampling above it, the no-speech probability.          *)
(*                                                                         *)
(* Text is a sequence of one-character strings.  A floating point value is *)
(* a record: a number in tenths (2.4 is 24) or NaN, and every comparison   *)
(* with NaN is false as in IEEE 754.                                       *)
(***************************************************************************)
EXTENDS Integers, Sequences, FiniteSets, TLC

VARIABLES
    \* ---- InferenceSessions (sessions.rs:16-19)
    sessions,     \* Slab<(Box<dyn Model>, InferenceSession)>
    vector_dbs,   \* Slab<VectorDB<String>>
    pc,           \* "idle" | "infer" (inside session.infer) | "panicked"
    frame,        \* the locals of the running infer call
    ret,          \* what the last finished call gave its caller
    \* ---- history of the registry's callers (not program state)
    nextUid,      \* number the next created session gets
    handles,      \* every ModelId a create() has returned, with its session
    removed,      \* the removed sessions, each with the value of nextUid then
    inflight,     \* the slab keys of the infer calls that have not returned
    \* ---- Decoder::decode_with_fallback (model.rs:353-380)
    fpc,          \* "loop" | "returned" | "panicked"
    ti,           \* index i of the loop over m::TEMPERATURES
    attempts,     \* the decode calls made so far: temperature and outcome
    errlog,       \* the temperatures at which this call logged an error
    returned,     \* the value decode_with_fallback returned
    \* ---- Decoder::run (model.rs:382-480) and the consumer of its stream
    rpc,            \* "start" | "while" | "for" | "decode" | "done" | "err" | "panicked"
    content_frames, \* frames of the mel spectrogram
    seek,           \* first frame not yet put into a chunk
    chunk_indices,  \* the frame ranges of the current batch
    ci,             \* position of the for loop in chunk_indices
    fragment,       \* tokens_in_sentence_fragment
    di,             \* index i of the step loop of the running decode
    dstate,         \* "steps" | "ended" | "err" | "panic": that loop's state
    queue,          \* Segments in the unbounded channel, oldest first
    received,       \* Segments the consumer has taken from the channel
    rxAlive,        \* the consumer still holds its receiver
    chunklog,       \* history: each chunk run has handled and what became of it
    \* ---- LlamaCache (cache.rs) and the tensor map taken from it
    cache,          \* the LlamaCache in use: max_seq_len, tokens, blocks
    tmap,           \* the tensor map at hand (taken by get_tensor_map or loaded), if any
    cpc,            \* "idle" | "restoring" | "err" | "panic": from_tensor_map's position
    rest,           \* the names from_tensor_map's loop has yet to visit
    building,       \* the tokens, max_seq_len and blocks from_tensor_map has so far
    saved,          \* history: the cache tmap was taken from
    appendsOnly,    \* history: cache was reached from new by appends alone
    \* ---- Decoder::decode (model.rs:237-351), one call seen step by step
    dpc,            \* "idle" | "steps" | "ended" | "done" | "err" | "panicked"
    temperature,    \* the temperature of the call, in tenths
    step_i,         \* index i of the loop over 0..sample_len
    dtokens,        \* the next_tokens pushed so far
    rng,            \* state of self.rng
    seed,           \* history: state of self.rng when the call began
    no_speech,      \* the local no_speech_prob
    sum_logprob,    \* the probabilities whose logarithms were added so far
    ys_log          \* history: what the decoder's forward gave at each step

sessionVars == <<sessions, vector_dbs, pc, frame, ret, nextUid, handles, removed,
                 inflight>>
fallbackVars == <<fpc, ti, attempts, returned, errlog>>
runVars == <<rpc, content_frames, seek, chunk_indices, ci, fragment, di, dstate,
             queue, received, rxAlive, chunklog>>
cacheVars == <<cache, tmap, cpc, rest, building, saved, appendsOnly>>
decodeVars == <<dpc, temperature, step_i, dtokens, rng, seed, no_speech,
                sum_logprob, ys_log>>
vars == <<sessionVars, fallbackVars, runVars, cacheVars, decodeVars>>

\* Option<T>: None is the empty sequence, Some(x) the sequence of x alone
None == <<>>
Some(x) == <<x>>
\* the x of Some(x)
Unwrap(o) == o[1]

\* ------------------------------------------------------------------ bounds

\* create() calls in one behaviour
MaxCreates == 3
\* context window of a session: tokens it can hold before ContextFull
MaxPast == 3
\* tokens a model generates at most when no maximum_token_count is given
MaxGen == 2

\* ------------------------------------------------------------------ text

RECURSIVE Flat(_)
\* String::push_str over a list of token texts, in order
Flat(ts) == IF ts = <<>> THEN <<>> ELSE Head(ts) \o Flat(Tail(ts))

\* token texts a model can infer; "H" stands for "Hello", "W" for " World"
TokenTexts == { <<"H">>, <<"W">> }
\* stop_on: Option<String>
StopOpts == { None, Some(<<"W">>), Some(<<"H", "W">>) }
\* max_tokens: Option<u32>
MaxTokenOpts == { None, Some(1), Some(MaxGen) }
\* number of tokens the prompt is tokenized into
PromptLens == { 1 }
ModelTypes == { "Llama" }

\* ------------------------------------------------------------------ Slab

Vacant(n) == [tag |-> "Vacant", next |-> n, val |-> None, uid |-> 0]
\* what Slab::get gives for a key that holds nothing
NoEntry == [tag |-> "None", next |-> 0, val |-> None, uid |-> 0]
Occupied(v, u) == [tag |-> "Occupied", next |-> 0, val |-> Some(v), uid |-> u]

\* Slab::default(): no entries, next = 0, len = 0
EmptySlab == [entries |-> <<>>, next |-> 0, len |-> 0]

\* Slab::get(key): the occupied entry at key, or None
SlabGet(s, key) ==
    IF key < Len(s.entries) /\ s.entries[key + 1].tag = "Occupied"
    THEN s.entries[key + 1]
    ELSE NoEntry

\* the key a faulty Slab::insert would take: the number of occupied entries
SlabVacantKeyByLen(s) == s.len

\* Slab::vacant_key(): the head of the free list
SlabVacantKey(s) == s.next

\* Slab::insert(val): takes the slot at the head of the free list, or pushes
SlabInsert(s, v, u) ==
    LET key == SlabVacantKey(s) IN
    [ key  |-> key,
      slab |-> IF key >= Len(s.entries)
               THEN [entries |-> Append(s.entries, Occupied(v, u)),
                     next |-> key + 1, len |-> s.len + 1]
               ELSE [entries |-> [s.entries EXCEPT ![key + 1] = Occupied(v, u)],
                     next |-> s.entries[key + 1].next, len |-> s.len + 1] ]

\* Slab::remove(key) on an occupied key: the slot joins the free list
SlabRemove(s, key) ==
    [entries |-> [s.entries EXCEPT ![key + 1] = Vacant(s.next)],
     next |-> key, len |-> s.len - 1]

\* ------------------------------------------------------ inference callback

Halt == "Halt"
Continue == "Continue"

\* sessions.rs:121, stop_sequence.as_str().eq(reverse_buf.as_str())
StopMatches(stop, reverse_buf) == stop = reverse_buf

\* a callback that writes a text for the end-of-text token into buf
InferenceCallbackEotText(stop, buf, resp) ==
    CASE resp.kind = "InferredToken" ->
            LET reverse_buf == buf \o resp.t IN
            IF stop # None /\ StopMatches(Unwrap(stop), reverse_buf)
            THEN [feedback |-> Halt, buf |-> buf]
            ELSE [feedback |-> Continue, buf |-> buf \o resp.t]
      [] resp.kind = "EotToken" -> [feedback |-> Halt, buf |-> buf \o << "E" >>]
      [] OTHER -> [feedback |-> Continue, buf |-> buf]

\* the closure inference_callback returns, applied to one InferenceResponse:
\* the feedback it gives and the contents of buf afterwards
InferenceCallback(stop, buf, resp) ==
    CASE resp.kind = "InferredToken" ->
            LET reverse_buf == buf \o resp.t IN
            IF stop # None /\ StopMatches(Unwrap(stop), reverse_buf)
            THEN [feedback |-> Halt, buf |-> buf]
            ELSE [feedback |-> Continue, buf |-> buf \o resp.t]
      [] resp.kind = "EotToken" -> [feedback |-> Halt, buf |-> buf]
      [] OTHER -> [feedback |-> Continue, buf |-> buf]

\* ------------------------------------------------------ InferenceSessions

NoFrame == [id |-> 0, via |-> 0, reached |-> 0, stop |-> None, max |-> None,
            buf |-> <<>>, gen |-> <<>>, n |-> 0]
NoRet == [op |-> "none", outcome |-> "none", id |-> 0, via |-> 0, reached |-> 0,
          text |-> <<>>, gen |-> <<>>, stop |-> None, halt |-> "none"]

\* the handles a caller can pass: one a create() returned (still live or
\* stale), or an integer no create() has returned (via 0)
CallerHandles == handles \cup { [id |-> MaxCreates, uid |-> 0] }

\* a call that unwinds with a panic: nothing is returned to the caller, and
\* the model follows the registry no further (nothing in the source catches
\* the unwinding)
Panicked(op, h) ==
    /\ pc' = "panicked"
    /\ frame' = NoFrame
    /\ ret' = [NoRet EXCEPT !.op = op, !.outcome = "panic", !.id = h.id, !.via = h.uid]

\* sessions.rs:51-80, infer(&mut self, ..) is a synchronous method: the
\* exclusive borrow of the registry taken at the call lasts until infer
\* returns or unwinds, session.infer and its decode steps included
BorrowedMut == pc = "infer"

\* a call that would start while another call still holds the registry
CanBorrowWhileBorrowed == pc # "panicked"

\* sessions.rs:39, 47, 52, 82: every method takes &mut self or &self, so a
\* call starts only when no call holds the exclusive borrow
CanBorrow == pc # "panicked" /\ ~BorrowedMut

\* create(ty): download the model, start a session, insert the pair
Create(ty) ==
    /\ CanBorrow
    /\ nextUid <= MaxCreates
    /\ LET ins == SlabInsert(sessions,
                             [model |-> ty, session |-> [n_past |-> 0]], nextUid)
       IN /\ sessions' = ins.slab
          /\ handles' = handles \cup { [id |-> ins.key, uid |-> nextUid] }
          /\ ret' = [NoRet EXCEPT !.op = "create", !.outcome = "ok",
                                  !.id = ins.key, !.reached = nextUid]
    /\ nextUid' = nextUid + 1
    /\ UNCHANGED <<vector_dbs, pc, frame, removed, inflight>>
    /\ UNCHANGED <<fallbackVars, runVars, cacheVars, decodeVars>>

\* remove(id): Slab::remove panics ("invalid key") on a vacant key
Remove(h) ==
    /\ CanBorrow
    /\ LET e == SlabGet(sessions, h.id) IN
       IF e.tag # "Occupied"
       THEN /\ Panicked("remove", h)
            /\ UNCHANGED <<sessions, removed>>
       ELSE /\ sessions' = SlabRemove(sessions, h.id)
            /\ removed' = removed \cup { [uid |-> e.uid, at |-> nextUid] }
            /\ ret' = [NoRet EXCEPT !.op = "remove", !.outcome = "ok",
                                    !.id = h.id, !.via = h.uid, !.reached = e.uid]
            /\ UNCHANGED <<pc, frame>>
    /\ UNCHANGED <<vector_dbs, nextUid, handles, inflight>>
    /\ UNCHANGED <<fallbackVars, runVars, cacheVars, decodeVars>>

\* get_embedding(id, text): session_get(id), then the model's embedding
GetEmbedding(h) ==
    /\ CanBorrow
    /\ LET e == SlabGet(sessions, h.id) IN
       IF e.tag # "Occupied"
       THEN Panicked("get_embedding", h)
       ELSE /\ ret' = [NoRet EXCEPT !.op = "get_embedding", !.outcome = "ok",
                                    !.id = h.id, !.via = h.uid, !.reached = e.uid]
            /\ UNCHANGED <<pc, frame>>
    /\ UNCHANGED <<sessions, vector_dbs, nextUid, handles, removed, inflight>>
    /\ UNCHANGED <<fallbackVars, runVars, cacheVars, decodeVars>>

\* the session of the running infer call
CurSession == Unwrap(sessions.entries[frame.id + 1].val).session

WithPast(k) ==
    [sessions EXCEPT !.entries[frame.id + 1].val[1].session.n_past = k]

\* infer(id, prompt, max_tokens, stop_on) up to the end of the prompt:
\* session_get_mut(id), then session.infer feeds the prompt's tokens
Infer(h, promptLen, max, stop) ==
    /\ CanBorrow
    /\ LET e == SlabGet(sessions, h.id) IN
       IF e.tag # "Occupied"
       THEN /\ Panicked("infer", h)
            /\ UNCHANGED <<sessions, inflight>>
       ELSE LET past == Unwrap(e.val).session.n_past + promptLen IN
            IF past > MaxPast
            THEN \* InferenceError::ContextFull, then panic!("{e}") at line 77
                 /\ Panicked("infer", h)
                 /\ sessions' = [sessions EXCEPT
                        !.entries[h.id + 1].val[1].session.n_past = MaxPast]
                 /\ UNCHANGED inflight
            ELSE /\ pc' = "infer"
                 /\ frame' = [id |-> h.id, via |-> h.uid, reached |-> e.uid,
                              stop |-> stop, max |-> max,
                              buf |-> <<>>, gen |-> <<>>, n |-> 0]
                 /\ sessions' = [sessions EXCEPT
                        !.entries[h.id + 1].val[1].session.n_past = past]
                 /\ ret' = NoRet
                 /\ inflight' = Append(inflight, h.id)
    /\ UNCHANGED <<vector_dbs, nextUid, handles, removed>>
    /\ UNCHANGED <<fallbackVars, runVars, cacheVars, decodeVars>>

\* tokens session.infer may still generate: maximum_token_count, or what the
\* model generates before its end of text
TokenLimit == IF frame.max = None THEN MaxGen ELSE Unwrap(frame.max)

\* infer returns buf to its caller
InferReturn(buf, gen, halt) ==
    /\ pc' = "idle"
    /\ ret' = [op |-> "infer", outcome |-> "ok", id |-> frame.id, via |-> frame.via,
               reached |-> frame.reached, text |-> buf, gen |-> gen,
               stop |-> frame.stop, halt |-> halt]
    /\ frame' = NoFrame
    /\ inflight' = SubSeq(inflight, 1, Len(inflight) - 1)

\* one turn of session.infer's loop that infers token text t and hands it to
\* the callback
InferToken(t) ==
    /\ pc = "infer"
    /\ frame.n < TokenLimit
    /\ CurSession.n_past < MaxPast
    /\ sessions' = WithPast(CurSession.n_past + 1)
    /\ LET cb == InferenceCallback(frame.stop, frame.buf,
                                   [kind |-> "InferredToken", t |-> t])
           gen == Append(frame.gen, t)
       IN IF cb.feedback = Halt
          THEN InferReturn(cb.buf, gen, "stop")
          ELSE /\ frame' = [frame EXCEPT !.buf = cb.buf, !.gen = gen, !.n = @ + 1]
               /\ UNCHANGED <<pc, ret, inflight>>
    /\ UNCHANGED <<vector_dbs, nextUid, handles, removed>>
    /\ UNCHANGED <<fallbackVars, runVars, cacheVars, decodeVars>>

\* the model produces its end-of-text token: the callback answers Halt
InferEot ==
    /\ pc = "infer"
    /\ frame.n < TokenLimit \/ frame.max = None
    /\ LET cb == InferenceCallback(frame.stop, frame.buf,
                                   [kind |-> "EotToken", t |-> <<>>])
       IN /\ cb.feedback = Halt
          /\ InferReturn(cb.buf, frame.gen, "eot")
    /\ UNCHANGED <<sessions, vector_dbs, nextUid, handles, removed>>
    /\ UNCHANGED <<fallbackVars, runVars, cacheVars, decodeVars>>

\* maximum_token_count tokens have been processed: the loop ends
InferMax ==
    /\ pc = "infer"
    /\ frame.max # None
    /\ frame.n >= Unwrap(frame.max)
    /\ InferReturn(frame.buf, frame.gen, "max")
    /\ UNCHANGED <<sessions, vector_dbs, nextUid, handles, removed>>
    /\ UNCHANGED <<fallbackVars, runVars, cacheVars, decodeVars>>

\* session.infer returns Err (the context is full, or the backend failed):
\* line 77 turns it into a panic
InferErr ==
    /\ pc = "infer"
    /\ frame.n < TokenLimit \/ frame.max = None
    /\ Panicked("infer", [id |-> frame.id, uid |-> frame.via])
    /\ inflight' = SubSeq(inflight, 1, Len(inflight) - 1)
    /\ UNCHANGED <<sessions, vector_dbs, nextUid, handles, removed>>
    /\ UNCHANGED <<fallbackVars, runVars, cacheVars, decodeVars>>

NextSessions ==
    \/ \E ty \in ModelTypes : Create(ty)
    \/ \E h \in CallerHandles : Remove(h)
    \/ \E h \in CallerHandles : GetEmbedding(h)
    \/ \E h \in CallerHandles, p \in PromptLens, max \in MaxTokenOpts, stop \in StopOpts :
          Infer(h, p, max, stop)
    \/ \E t \in TokenTexts : InferToken(t)
    \/ InferEot
    \/ InferMax
    \/ InferErr

\* ------------------------------------------------- decode_with_fallback

\* f64 values: F(v) is v tenths, NaN compares false with everything
F(v) == [nan |-> FALSE, v |-> v]
NaN == [nan |-> TRUE, v |-> 0]
Gt(a, b) == ~a.nan /\ ~b.nan /\ a.v > b.v
Lt(a, b) == ~a.nan /\ ~b.nan /\ a.v < b.v

\* the constants of candle_transformers::models::whisper (m::), in tenths:
\* TEMPERATURES = [0.0, 0.2, 0.4, 0.6, 0.8, 1.0], COMPRESSION_RATIO_THRESHOLD
\* = 2.4, LOGPROB_THRESHOLD = -1.0, NO_SPEECH_THRESHOLD = 0.6
TEMPERATURES == << 0, 2, 4, 6, 8, 10 >>
COMPRESSION_RATIO_THRESHOLD == 24
LOGPROB_THRESHOLD == -10
NO_SPEECH_THRESHOLD == 6

\* what a call of Decoder::decode can come back with, by temperature t.
\* The forward pass is a black box: the text it yields has some compression
\* ratio (text_ratio), the steps some average log-probability and the first
\* step some no-speech probability.
TextRatios == { F(10), F(30) }
AvgLogprobs == { F(-20), F(-10), F(-5) }
NoSpeechProbs == { F(3), F(6), F(9) }

\* model.rs:345-350, the DecodingResult decode builds: compression_ratio is
\* f64::NAN whatever the text
DecodingResult(text_ratio, avg_logprob, no_speech_prob) ==
    [kind |-> "ok", text_ratio |-> text_ratio, avg_logprob |-> avg_logprob,
     no_speech_prob |-> no_speech_prob, compression_ratio |-> NaN]

\* Err(WhisperError): a `?` in decode (forward, softmax, tokenizer)
DecodeErr == [kind |-> "err", text_ratio |-> NaN, avg_logprob |-> NaN,
              no_speech_prob |-> NaN, compression_ratio |-> NaN]
\* the expect of line 318: WeightedIndex::new refuses the weights
DecodePanic == [kind |-> "panic", text_ratio |-> NaN, avg_logprob |-> NaN,
                no_speech_prob |-> NaN, compression_ratio |-> NaN]
NoOutcome == [kind |-> "none", text_ratio |-> NaN, avg_logprob |-> NaN,
              no_speech_prob |-> NaN, compression_ratio |-> NaN]

Decode(t) ==
    { DecodingResult(r, l, n) : r \in TextRatios, l \in AvgLogprobs, n \in NoSpeechProbs }
    \cup { DecodeErr }
    \cup (IF t > 0 THEN { DecodePanic } ELSE {})

\* the ladder walked from its hot end
TemperatureAtReversed(i) == TEMPERATURES[Len(TEMPERATURES) - i]

\* model.rs:359, the t of iteration i of m::TEMPERATURES.iter().enumerate()
TemperatureAt(i) == TEMPERATURES[i + 1]

\* an off-by-one in the test of the last iteration
IsLastTemperatureOffByOne(i) == i = Len(TEMPERATURES)

\* model.rs:362
IsLastTemperature(i) == i = Len(TEMPERATURES) - 1

\* model.rs:368-369
NeedsFallback(dr) ==
    \/ Gt(dr.compression_ratio, F(COMPRESSION_RATIO_THRESHOLD))
    \/ Lt(dr.avg_logprob, F(LOGPROB_THRESHOLD))

\* a test that forgets the no-speech probability
ReturnsEarlyIgnoringNoSpeech(dr) == ~NeedsFallback(dr)

\* model.rs:370, the result is returned without trying another temperature
ReturnsEarly(dr) ==
    ~NeedsFallback(dr) \/ Gt(dr.no_speech_prob, F(NO_SPEECH_THRESHOLD))

\* a loop that returns an error at the temperature where it happens
ReturnsFromOnError(i, dr) ==
    IsLastTemperature(i) \/ dr.kind = "err" \/ (dr.kind = "ok" /\ ReturnsEarly(dr))

\* a loop without the return of its last iteration
ReturnsFromAcceptedOnly(i, dr) == dr.kind = "ok" /\ ReturnsEarly(dr)

\* model.rs:362-372, the iteration of index i returns dr: `return dr` at the
\* last temperature, `return Ok(dr)` for an accepted result; the Err arm
\* (374-376) does not return
ReturnsFrom(i, dr) ==
    IsLastTemperature(i) \/ (dr.kind = "ok" /\ ReturnsEarly(dr))

\* one iteration of the loop of decode_with_fallback: the decode call at the
\* temperature of index ti, which comes back with one of `outcomes`, and what
\* the loop does with its outcome
FallbackBody(outcomes) ==
    /\ fpc = "loop"
    /\ ti < Len(TEMPERATURES)
    /\ \E dr \in outcomes :
          /\ attempts' = Append(attempts, [t |-> TemperatureAt(ti), dr |-> dr])
          /\ IF dr.kind = "panic"
             THEN /\ fpc' = "panicked"
                  /\ UNCHANGED <<ti, returned, errlog>>
             ELSE IF ReturnsFrom(ti, dr)
             THEN /\ fpc' = "returned"
                  /\ returned' = dr
                  /\ UNCHANGED <<ti, errlog>>
             ELSE \* a poor result, or an error, which tracing::error! logs
                  \* (model.rs:374-376): next temperature
                  /\ ti' = ti + 1
                  /\ errlog' = IF dr.kind = "err"
                               THEN Append(errlog, TemperatureAt(ti)) ELSE errlog
                  /\ UNCHANGED <<fpc, returned>>

\* an iteration of decode_with_fallback called on its own, decode a black box
FallbackStep ==
    /\ FallbackBody(Decode(TemperatureAt(ti)))
    /\ UNCHANGED <<sessionVars, runVars, cacheVars, decodeVars>>

NextFallback == FallbackStep

\* ------------------------------------------------- Decoder::run

\* frames of the longest spectrogram, frames of a full chunk (m::N_FRAMES,
\* model.rs:404, scaled down) and steps of a decode (sample_len =
\* max_target_positions / 2, model.rs:245, scaled down)
MaxContentFrames == 4
N_FRAMES == 2
SampleLen == 2
\* model.rs:390
MAX_CHUNKS == 1

Min(a, b) == IF a < b THEN a ELSE b

\* model.rs:409, the range seek..seek + segment_size
Range(start, end) == [start |-> start, end |-> end]

\* a window that steps over one frame less than it covers
SeekAfterOverlapping(s, segment_size) == s + segment_size - 1

\* model.rs:412
SeekAfter(s, segment_size) == s + segment_size

\* a segment that is always a full chunk
SegmentSizeFull(remaining_frames) == N_FRAMES

\* model.rs:404
SegmentSize(remaining_frames) == Min(remaining_frames, N_FRAMES)

\* model.rs:402-413, the inner loop that fills chunk_indices from seek on; it
\* gives the ranges pushed and the seek it ends with
RECURSIVE TakeChunks(_, _, _)
TakeChunks(s, indices, frames) ==
    IF ~(Len(indices) < MAX_CHUNKS /\ s < frames)
    THEN [indices |-> indices, seek |-> s]
    ELSE LET remaining_frames == frames - s
             segment_size == SegmentSize(remaining_frames)
         IN  IF remaining_frames < N_FRAMES /\ indices # <<>>
             THEN [indices |-> indices, seek |-> s]
             ELSE TakeChunks(SeekAfter(s, segment_size),
                             Append(indices, Range(s, s + segment_size)), frames)

\* the texts a decode yields: "c" stands for the words "the cat", "s" for a
\* sentence body; a text without terminator, one that ends with its
\* terminator, one with a fragment after it, one with two terminators
Texts == { <<"c">>, <<"s", ".">>, <<"s", ".", "c">>, <<"s", "?", "c", "!", "s">> }

\* model.rs:444
IsTerminal(c) == c \in { ".", "?", "!" }

\* model.rs:441-447, char_indices().rev().find_map(..): the last terminator
LastTerminal(text) ==
    LET at == { i \in 1..Len(text) : IsTerminal(text[i]) }
    IN  IF at = {} THEN None ELSE Some(CHOOSE i \in at : \A j \in at : i >= j)

\* model.rs:448, &dr.text[index + 1..]
TextAfterLastSentence(text, index) == SubSeq(text, index + 1, Len(text))

\* the tokenizer's vocabulary, one token id for each character here
TokenId(c) ==
    CASE c = "c" -> 11 [] c = "s" -> 12 [] c = "." -> 13 [] c = "?" -> 14
      [] OTHER -> 15

\* model.rs:449-452, tokenizer.encode(text, false) when it succeeds
Encode(text) == [i \in 1..Len(text) |-> TokenId(text[i])]

\* a drop test that reads the log-probability the wrong way round
DroppedAsNonSpeechInverted(dr) ==
    Gt(dr.no_speech_prob, F(NO_SPEECH_THRESHOLD))
        /\ Gt(dr.avg_logprob, F(LOGPROB_THRESHOLD))

\* model.rs:433-434
DroppedAsNonSpeech(dr) ==
    Gt(dr.no_speech_prob, F(NO_SPEECH_THRESHOLD))
        /\ Lt(dr.avg_logprob, F(LOGPROB_THRESHOLD))

\* model.rs:461-470, the Segment of a chunk; its times and progress are left
\* out, its result is the DecodingResult with the text of the result
Segment(range, dr, text) == [range |-> range, result |-> dr, text |-> text]

\* a channel that holds one Segment and discards what does not fit
ChannelSendBounded(q, segment) == IF Len(q) >= 1 THEN q ELSE Append(q, segment)

\* model.rs:472 on model.rs:149, UnboundedSender::send while the receiver is
\* alive: the Segment joins the queue, whatever the queue holds
ChannelSend(q, segment) == Append(q, segment)

\* a consumer that takes the newest Segment first
ChannelRecvNewest(q) == [segment |-> q[Len(q)], rest |-> SubSeq(q, 1, Len(q) - 1)]

\* the receiver's recv on the channel of model.rs:149: the oldest Segment
ChannelRecv(q) == [segment |-> Head(q), rest |-> Tail(q)]

\* what the decodes of run come back with once their step loop is over
RunLogprobs == { F(-20), F(-5) }
RunNoSpeech == { F(3), F(9) }
RunResults == { DecodingResult(F(10), l, n) : l \in RunLogprobs, n \in RunNoSpeech }

\* model.rs:261 and 334-336: the loop of decode is over after sample_len
\* steps or at its break
StepLoopOver(i, state) == state = "ended" \/ (state = "steps" /\ i = SampleLen)

\* model.rs:237-351, decode from where its step loop stopped: a failed step
\* is the error (or the panic) of the call; after the loop tokenizer.decode
\* fails or the result is built
DecodeOutcomes(state) ==
    CASE state = "err" -> { DecodeErr }
      [] state = "panic" -> { DecodePanic }
      [] OTHER -> RunResults \cup { DecodeErr }

LogEntry(range, primed) ==
    [range |-> range, primed |-> primed, status |-> "decoding",
     result |-> NoOutcome, text |-> <<>>]

\* the last entry of the log with the end of its chunk filled in
Logged(status, dr, text) ==
    [chunklog EXCEPT ![Len(chunklog)] =
        [@ EXCEPT !.status = status, !.result = dr, !.text = text]]

consumerVars == <<queue, received, rxAlive>>

\* model.rs:430-431, decode_with_fallback has returned to run: its frame is
\* gone
FallbackFrameGone ==
    /\ fpc' = "loop"
    /\ ti' = 0
    /\ attempts' = <<>>
    /\ returned' = NoOutcome
    /\ errlog' = <<>>

\* model.rs:382-396, run is called on a spectrogram of some number of frames
RunBegin ==
    /\ rpc = "start"
    /\ \E frames \in 0..MaxContentFrames : content_frames' = frames
    /\ seek' = 0
    /\ rpc' = "while"
    /\ UNCHANGED <<chunk_indices, ci, fragment, di, dstate, chunklog, consumerVars>>
    /\ UNCHANGED <<sessionVars, fallbackVars, cacheVars, decodeVars>>

\* model.rs:398-421, an iteration of the outer loop up to the for loop: the
\* batch is cut, stacked and encoded
RunWhileChunk ==
    /\ rpc = "while"
    /\ seek < content_frames
    /\ LET taken == TakeChunks(seek, <<>>, content_frames)
       IN  /\ chunk_indices' = taken.indices
           /\ seek' = taken.seek
    /\ ci' = 1
    /\ fragment' = <<>>
    /\ rpc' = "for"
    /\ UNCHANGED <<content_frames, di, dstate, chunklog, consumerVars>>
    /\ UNCHANGED <<sessionVars, fallbackVars, cacheVars, decodeVars>>

\* model.rs:410-418, a `?` of narrow, stack, encode or chunk is the Err of run
RunEncodeErr ==
    /\ rpc = "while"
    /\ seek < content_frames
    /\ LET taken == TakeChunks(seek, <<>>, content_frames)
       IN  /\ chunk_indices' = taken.indices
           /\ seek' = taken.seek
    /\ rpc' = "err"
    /\ UNCHANGED <<content_frames, ci, fragment, di, dstate, chunklog, consumerVars>>
    /\ UNCHANGED <<sessionVars, fallbackVars, cacheVars, decodeVars>>

\* model.rs:398 and 479
RunWhileExit ==
    /\ rpc = "while"
    /\ ~(seek < content_frames)
    /\ rpc' = "done"
    /\ UNCHANGED <<content_frames, seek, chunk_indices, ci, fragment, di, dstate,
                   chunklog, consumerVars>>
    /\ UNCHANGED <<sessionVars, fallbackVars, cacheVars, decodeVars>>

\* a call primed from the text of the chunk before, whatever became of it
PreviousTokensFromLastText(frag) ==
    IF chunklog = <<>> \/ LastTerminal(chunklog[Len(chunklog)].text) = None
    THEN <<>>
    ELSE Encode(TextAfterLastSentence(chunklog[Len(chunklog)].text,
                    Unwrap(LastTerminal(chunklog[Len(chunklog)].text))))

\* model.rs:431, the argument &tokens_in_sentence_fragment of
\* decode_with_fallback
PreviousTokens(frag) == frag

\* model.rs:423-431, the for loop takes its next chunk and calls
\* decode_with_fallback with tokens_in_sentence_fragment
RunForCall ==
    /\ rpc = "for"
    /\ ci <= Len(chunk_indices)
    /\ rpc' = "decode"
    /\ fpc' = "loop"
    /\ ti' = 0
    /\ attempts' = <<>>
    /\ returned' = NoOutcome
    /\ errlog' = <<>>
    /\ di' = 0
    /\ dstate' = "steps"
    /\ chunklog' = Append(chunklog,
                          LogEntry(chunk_indices[ci], PreviousTokens(fragment)))
    /\ UNCHANGED <<content_frames, seek, chunk_indices, ci, fragment, consumerVars>>
    /\ UNCHANGED <<sessionVars, cacheVars, decodeVars>>

\* model.rs:423, the for loop has no chunk left
RunForExit ==
    /\ rpc = "for"
    /\ ci > Len(chunk_indices)
    /\ rpc' = "while"
    /\ UNCHANGED <<content_frames, seek, chunk_indices, ci, fragment, di, dstate,
                   chunklog, consumerVars>>
    /\ UNCHANGED <<sessionVars, fallbackVars, cacheVars, decodeVars>>

\* model.rs:261-338, one step of the loop of decode: the forward pass and the
\* choice of the next token go on, reach the break, fail or (when sampling)
\* panic
DecodeStep ==
    /\ rpc = "decode"
    /\ fpc = "loop"
    /\ dstate = "steps"
    /\ ~StepLoopOver(di, dstate)
    /\ di' = di + 1
    /\ \E o \in { "steps", "ended", "err" }
              \cup (IF TemperatureAt(ti) > 0 THEN { "panic" } ELSE {}) :
          dstate' = o
    /\ UNCHANGED <<rpc, content_frames, seek, chunk_indices, ci, fragment,
                   chunklog, consumerVars>>
    /\ UNCHANGED <<sessionVars, fallbackVars, cacheVars, decodeVars>>

\* model.rs:359-378 in run: the decode of this temperature comes back and
\* the loop of decode_with_fallback goes on, returns or panics
RunAttempt ==
    /\ rpc = "decode"
    /\ dstate \in { "err", "panic" } \/ StepLoopOver(di, dstate)
    /\ FallbackBody(DecodeOutcomes(dstate))
    /\ rpc' = IF fpc' = "panicked" THEN "panicked" ELSE "decode"
    /\ di' = 0
    /\ dstate' = "steps"
    /\ UNCHANGED <<content_frames, seek, chunk_indices, ci, fragment,
                   chunklog, consumerVars>>
    /\ UNCHANGED <<sessionVars, cacheVars, decodeVars>>

\* model.rs:431, the `?` on an Err of decode_with_fallback
RunDecodeFailed ==
    /\ rpc = "decode"
    /\ fpc = "returned"
    /\ returned.kind = "err"
    /\ rpc' = "err"
    /\ chunklog' = Logged("error", returned, <<>>)
    /\ UNCHANGED <<content_frames, seek, chunk_indices, ci, fragment, di, dstate,
                   consumerVars>>
    /\ FallbackFrameGone
    /\ UNCHANGED <<sessionVars, cacheVars, decodeVars>>

\* model.rs:432-438, a result that is non-speech: nothing is sent and the for
\* loop continues
RunSkipNonSpeech ==
    /\ rpc = "decode"
    /\ fpc = "returned"
    /\ returned.kind = "ok"
    /\ DroppedAsNonSpeech(returned)
    /\ \E text \in Texts : chunklog' = Logged("dropped", returned, text)
    /\ fragment' = <<>>
    /\ ci' = ci + 1
    /\ rpc' = "for"
    /\ UNCHANGED <<content_frames, seek, chunk_indices, di, dstate, consumerVars>>
    /\ FallbackFrameGone
    /\ UNCHANGED <<sessionVars, cacheVars, decodeVars>>

\* model.rs:449-452, tokenizer.encode fails on the text after the last
\* sentence: the `?` is the Err of run
RunTokenizerErr ==
    /\ rpc = "decode"
    /\ fpc = "returned"
    /\ returned.kind = "ok"
    /\ ~DroppedAsNonSpeech(returned)
    /\ \E text \in Texts :
          /\ LastTerminal(text) # None
          /\ chunklog' = Logged("tokenizer_error", returned, text)
    /\ fragment' = <<>>
    /\ rpc' = "err"
    /\ UNCHANGED <<content_frames, seek, chunk_indices, ci, di, dstate, consumerVars>>
    /\ FallbackFrameGone
    /\ UNCHANGED <<sessionVars, cacheVars, decodeVars>>

\* model.rs:432-476, a result that is kept: the fragment after its last
\* sentence is tokenized, the Segment is built and sent; a send that fails
\* is logged and breaks the for loop
RunSend ==
    /\ rpc = "decode"
    /\ fpc = "returned"
    /\ returned.kind = "ok"
    /\ ~DroppedAsNonSpeech(returned)
    /\ \E text \in Texts :
          LET index == LastTerminal(text)
              segment == Segment(chunk_indices[ci], returned, text)
          IN  /\ fragment' = IF index # None
                             THEN Encode(TextAfterLastSentence(text, Unwrap(index)))
                             ELSE <<>>
              /\ IF rxAlive
                 THEN /\ queue' = ChannelSend(queue, segment)
                      /\ chunklog' = Logged("sent", returned, text)
                      /\ ci' = ci + 1
                      /\ rpc' = "for"
                 ELSE /\ chunklog' = Logged("send_failed", returned, text)
                      /\ rpc' = "while"
                      /\ UNCHANGED <<queue, ci>>
    /\ UNCHANGED <<content_frames, seek, chunk_indices, di, dstate, received, rxAlive>>
    /\ FallbackFrameGone
    /\ UNCHANGED <<sessionVars, cacheVars, decodeVars>>

\* the consumer takes a Segment from the channel
Receive ==
    /\ rxAlive
    /\ queue # <<>>
    /\ received' = Append(received, ChannelRecv(queue).segment)
    /\ queue' = ChannelRecv(queue).rest
    /\ UNCHANGED <<rpc, content_frames, seek, chunk_indices, ci, fragment, di,
                   dstate, rxAlive, chunklog>>
    /\ UNCHANGED <<sessionVars, fallbackVars, cacheVars, decodeVars>>

\* the consumer drops its receiver: what the channel holds is dropped too
DropReceiver ==
    /\ rxAlive
    /\ rxAlive' = FALSE
    /\ queue' = <<>>
    /\ UNCHANGED <<rpc, content_frames, seek, chunk_indices, ci, fragment, di,
                   dstate, received, chunklog>>
    /\ UNCHANGED <<sessionVars, fallbackVars, cacheVars, decodeVars>>

\* the steps of run, which transcribe calls on its own thread of work
RunStep ==
    \/ RunBegin
    \/ RunWhileChunk
    \/ RunEncodeErr
    \/ RunWhileExit
    \/ RunForCall
    \/ RunForExit
    \/ DecodeStep
    \/ RunAttempt
    \/ RunDecodeFailed
    \/ RunSkipNonSpeech
    \/ RunTokenizerErr
    \/ RunSend

NextRun ==
    \/ RunStep
    \/ Receive
    \/ DropReceiver

\* ------------------------------------------------- LlamaCache

\* layers of the model (config.n_layer), its context window
\* (config.context_length) and the token id a decode step appends
NLayer == 2
ContextLength == 3
CacheTokens == { 7 }
\* the decode steps followed on one token history
MaxHistory == 4

\* cache.rs:83, the max_seq_len of a map that names none
DEFAULT_MAX_SEQ_LEN == 2048

\* candle_nn::kv_cache::Cache as cache.rs uses it: all_data is allocated by
\* the first append (alloc), data are the current_seq_len positions held,
\* cap is the max_seq_len the Cache was made with
NewCache(cap) == [alloc |-> FALSE, data |-> <<>>, cap |-> cap]

\* cache.rs:26 and 92, KvCache::new(CONCAT_DIMENSION, max_seq_len): a key
\* Cache and a value Cache
NewKvCache(max_seq_len) == [k |-> NewCache(max_seq_len), v |-> NewCache(max_seq_len)]

\* Cache::current_seq_len
SeqLen(c) == Len(c.data)

\* cache.rs:101 and 118, Cache::append(src): the positions of src join the
\* data unless they go past cap
CanAppend(c, positions) == SeqLen(c) + Len(positions) <= c.cap
CacheAppend(c, positions) ==
    [alloc |-> TRUE, data |-> c.data \o positions, cap |-> c.cap]

\* cache.rs:48-52, clear: every block is reset (Cache::reset drops all_data
\* and keeps max_seq_len); tokens and max_seq_len are not touched
ClearBlocks(c) ==
    [max_seq_len |-> c.max_seq_len, tokens |-> c.tokens,
     blocks |-> [i \in 1..Len(c.blocks) |->
                    [k |-> NewCache(c.blocks[i].k.cap),
                     v |-> NewCache(c.blocks[i].v.cap)]]]

\* cache.rs:22-33
LlamaCacheNew(n_layer, context_length) ==
    [max_seq_len |-> context_length, tokens |-> <<>>,
     blocks |-> [i \in 1..n_layer |-> NewKvCache(context_length)]]

\* the key and the value a layer computes for a token at a position
KeyOf(layer, tok) == (2 * layer) * 100 + tok
ValueOf(layer, tok) == (2 * layer + 1) * 100 + tok

\* a tensor: its rank and its elements along the sequence axis
Tensor(rank, data) == [rank |-> rank, data |-> data]

\* the characters of a decimal number
DigitChars == << "0", "1", "2", "3", "4", "5", "6", "7", "8", "9" >>

\* cache.rs:58-59, the {} of format!: the decimal digits of i
RECURSIVE FormatUsize(_)
FormatUsize(i) ==
    IF i < 10 THEN << DigitChars[i + 1] >>
    ELSE FormatUsize(i \div 10) \o << DigitChars[(i % 10) + 1] >>

IsDigit(c) == \E d \in 1..Len(DigitChars) : DigitChars[d] = c
DigitValue(c) == (CHOOSE d \in 1..Len(DigitChars) : DigitChars[d] = c) - 1

\* cache.rs:90, str::parse::<usize>: None unless every character is a digit
RECURSIVE ParseUsize(_)
ParseUsize(chars) ==
    IF chars = <<>> \/ \E j \in 1..Len(chars) : ~IsDigit(chars[j])
    THEN None
    ELSE IF Len(chars) = 1 THEN Some(DigitValue(chars[1]))
    ELSE Some(10 * Unwrap(ParseUsize(SubSeq(chars, 1, Len(chars) - 1)))
              + DigitValue(chars[Len(chars)]))

\* the names of a tensor map: a prefix, then for a block its index and a
\* suffix, character by character
BlocksPrefix == "llama.cache.blocks."
\* cache.rs:58-59
BlockName(i, suffix) == << BlocksPrefix >> \o FormatUsize(i) \o << suffix >>
TokensName == << "llama.cache.tokens" >>
MaxSeqLenName == << "llama.cache.max_seq_len" >>

\* cache.rs:57, (kv_cache.cache().k(), kv_cache.cache().v()): Some tensor of
\* the positions held when all_data is allocated, None when it is not
CurrentData(c) == IF c.alloc THEN Some(Tensor(4, c.data)) ELSE None

\* cache.rs:55-72, get_tensor_map: a function from names to tensors
GetTensorMapOf(c) ==
    LET held == { i \in 1..Len(c.blocks) :
                    CurrentData(c.blocks[i].k) # None /\ CurrentData(c.blocks[i].v) # None }
        names == { BlockName(i - 1, sfx) : i \in held, sfx \in { ".key", ".value" } }
                    \cup { TokensName, MaxSeqLenName }
    IN  [n \in names |->
            IF n = TokensName THEN Tensor(1, c.tokens)
            ELSE IF n = MaxSeqLenName THEN Tensor(0, << c.max_seq_len >>)
            ELSE LET i == Unwrap(ParseUsize(SubSeq(n, 2, Len(n) - 1))) + 1
                 IN  IF n[Len(n)] = ".key"
                     THEN Unwrap(CurrentData(c.blocks[i].k))
                     ELSE Unwrap(CurrentData(c.blocks[i].v))]

\* cache.rs:76-79, the tokens of a map: to_vec1 of a tensor of rank 1, or
\* the default
TokensOf(map) ==
    IF TokensName \in DOMAIN map /\ map[TokensName].rank = 1
    THEN map[TokensName].data ELSE <<>>

\* cache.rs:80-83, the max_seq_len of a map: to_scalar of a tensor of rank 0
\* (the casts to u32 and back change no value that the model can hold), or
\* the default
MaxSeqLenOf(map) ==
    IF MaxSeqLenName \in DOMAIN map /\ map[MaxSeqLenName].rank = 0
    THEN map[MaxSeqLenName].data[1] ELSE DEFAULT_MAX_SEQ_LEN

\* cache.rs:91-93, blocks.resize(i + 1, KvCache::new(..)) when i >= len
Resized(blocks, n, max_seq_len) ==
    IF n <= Len(blocks) THEN blocks
    ELSE [j \in 1..n |-> IF j <= Len(blocks) THEN blocks[j] ELSE NewKvCache(max_seq_len)]

\* cache.rs:99-101 and 116-118: a Cache made with the length of the tensor
\* as its max_seq_len, the tensor appended
RestoredCache(tensor) == CacheAppend(NewCache(Len(tensor.data)), tensor.data)

\* cache.rs:85-129, the body of the loop of from_tensor_map for the entry
\* (name, tensor): what becomes of blocks
EntryStep(blocks, name, tensor, max_seq_len) ==
    IF name[1] # BlocksPrefix
    THEN [kind |-> "ok", blocks |-> blocks]
    ELSE LET txt == Tail(name)
             sfx == IF txt = <<>> THEN "" ELSE txt[Len(txt)]
         IN  IF sfx \notin { ".key", ".value" }
             THEN [kind |-> "panic", blocks |-> blocks]
             ELSE LET parsed == ParseUsize(SubSeq(txt, 1, Len(txt) - 1))
                      i == IF parsed = None THEN 0 ELSE Unwrap(parsed)
                      sized == Resized(blocks, i + 1, max_seq_len)
                  IN  IF tensor.rank <= 2
                      THEN [kind |-> "err", blocks |-> sized]
                      ELSE [kind |-> "ok",
                            blocks |-> [sized EXCEPT ![i + 1] =
                                IF sfx = ".key"
                                THEN [@ EXCEPT !.k = RestoredCache(tensor)]
                                ELSE [@ EXCEPT !.v = RestoredCache(tensor)]]]

NoBuilding == [max_seq_len |-> 0, tokens |-> <<>>, blocks |-> <<>>]

\* LlamaCache::new is called again: a fresh cache replaces the one in use
CacheNew ==
    /\ cpc = "idle"
    /\ cache' = LlamaCacheNew(NLayer, ContextLength)
    /\ appendsOnly' = TRUE
    /\ UNCHANGED <<tmap, cpc, rest, building, saved>>
    /\ UNCHANGED <<sessionVars, fallbackVars, runVars, decodeVars>>

\* a decode step accepts token tok: every layer appends its key and its
\* value for the new position and tok joins the token history, all or
\* nothing; a step that would go past the capacity of a block fails and
\* leaves the cache as it was
AppendStep(tok) ==
    /\ cpc = "idle"
    /\ Len(cache.blocks) = NLayer
    /\ Len(cache.tokens) < MaxHistory
    /\ IF \A i \in 1..NLayer :
             /\ CanAppend(cache.blocks[i].k, << KeyOf(i, tok) >>)
             /\ CanAppend(cache.blocks[i].v, << ValueOf(i, tok) >>)
       THEN cache' = [cache EXCEPT
                !.tokens = Append(@, tok),
                !.blocks = [i \in 1..NLayer |->
                    [k |-> CacheAppend(cache.blocks[i].k, << KeyOf(i, tok) >>),
                     v |-> CacheAppend(cache.blocks[i].v, << ValueOf(i, tok) >>)]]]
       ELSE cache' = cache
    /\ UNCHANGED <<tmap, cpc, rest, building, saved, appendsOnly>>
    /\ UNCHANGED <<sessionVars, fallbackVars, runVars, decodeVars>>

\* cache.rs:48-52
Clear ==
    /\ cpc = "idle"
    /\ cache' = ClearBlocks(cache)
    /\ appendsOnly' = FALSE
    /\ UNCHANGED <<tmap, cpc, rest, building, saved>>
    /\ UNCHANGED <<sessionVars, fallbackVars, runVars, decodeVars>>

\* cache.rs:55-72
GetTensorMap ==
    /\ cpc = "idle"
    /\ tmap' = Some(GetTensorMapOf(cache))
    /\ saved' = [cache |-> cache, appendsOnly |-> appendsOnly]
    /\ UNCHANGED <<cache, cpc, rest, building, appendsOnly>>
    /\ UNCHANGED <<sessionVars, fallbackVars, runVars, decodeVars>>

\* a block tensor of one position that no layer of this model computed
StrayTensor == Tensor(4, << 999 >>)

\* tensor maps as a file on disk can hold them, written by something else
\* than get_tensor_map or damaged: a map whose layer 0 is missing, one with
\* a block entry whose index is no number, one with two numerals of the same
\* index, one without tokens and max_seq_len, one with a key that is no
\* cache entry, one with a key under the blocks prefix that has neither
\* suffix
GapMap ==
    (BlockName(1, ".key") :> Tensor(4, << KeyOf(2, 7) >>))
        @@ (BlockName(1, ".value") :> Tensor(4, << ValueOf(2, 7) >>))
        @@ (TokensName :> Tensor(1, << 7 >>))
        @@ (MaxSeqLenName :> Tensor(0, << ContextLength >>))
UnparseableMap ==
    (BlockName(0, ".key") :> Tensor(4, << KeyOf(1, 7) >>))
        @@ (<< BlocksPrefix, "x", ".key" >> :> StrayTensor)
        @@ (TokensName :> Tensor(1, << 7 >>))
        @@ (MaxSeqLenName :> Tensor(0, << ContextLength >>))
LeadingZeroMap ==
    (BlockName(0, ".key") :> Tensor(4, << KeyOf(1, 7) >>))
        @@ (<< BlocksPrefix, "0", "0", ".key" >> :> StrayTensor)
BareMap ==
    (BlockName(0, ".key") :> Tensor(4, << KeyOf(1, 7) >>))
        @@ (BlockName(0, ".value") :> Tensor(4, << ValueOf(1, 7) >>))
UnknownKeyMap ==
    (<< "llama.rope.freqs" >> :> StrayTensor)
        @@ (TokensName :> Tensor(1, << 7 >>))
        @@ (MaxSeqLenName :> Tensor(0, << ContextLength >>))
NoSuffixMap ==
    (<< BlocksPrefix, "0", ".scale" >> :> StrayTensor)
        @@ (TokensName :> Tensor(1, << 7 >>))
        @@ (MaxSeqLenName :> Tensor(0, << ContextLength >>))
LoadedMaps == { GapMap, UnparseableMap, LeadingZeroMap, BareMap, UnknownKeyMap,
                NoSuffixMap }

\* a tensor map is read from disk: from_tensor_map takes any HashMap
LoadMap(m) ==
    /\ cpc = "idle"
    /\ tmap' = Some(m)
    /\ saved' = [saved EXCEPT !.appendsOnly = FALSE]
    /\ UNCHANGED <<cache, cpc, rest, building, appendsOnly>>
    /\ UNCHANGED <<sessionVars, fallbackVars, runVars, decodeVars>>

\* cache.rs:75-84, from_tensor_map is called with the map at hand: the
\* tokens and max_seq_len are read, blocks starts empty
RestoreBegin ==
    /\ cpc = "idle"
    /\ tmap # None
    /\ cpc' = "restoring"
    /\ rest' = DOMAIN Unwrap(tmap)
    /\ building' = [max_seq_len |-> MaxSeqLenOf(Unwrap(tmap)),
                    tokens |-> TokensOf(Unwrap(tmap)), blocks |-> <<>>]
    /\ UNCHANGED <<cache, tmap, saved, appendsOnly>>
    /\ UNCHANGED <<sessionVars, fallbackVars, runVars, decodeVars>>

\* cache.rs:85-130, one turn of `for (k, v) in map`: a HashMap hands out its
\* entries in an order of its own
RestoreEntry ==
    /\ cpc = "restoring"
    /\ \E name \in rest :
          LET step == EntryStep(building.blocks, name, Unwrap(tmap)[name],
                                building.max_seq_len)
          IN  /\ rest' = rest \ { name }
              /\ building' = [building EXCEPT !.blocks = step.blocks]
              /\ cpc' = IF step.kind = "ok" THEN "restoring" ELSE step.kind
    /\ UNCHANGED <<cache, tmap, saved, appendsOnly>>
    /\ UNCHANGED <<sessionVars, fallbackVars, runVars, decodeVars>>

\* cache.rs:131-135, Ok(Self { tokens, blocks, max_seq_len }): the restored
\* cache is the one in use from here on
RestoreEnd ==
    /\ cpc = "restoring"
    /\ rest = {}
    /\ cache' = building
    /\ cpc' = "idle"
    /\ building' = NoBuilding
    /\ appendsOnly' = FALSE
    /\ UNCHANGED <<tmap, rest, saved>>
    /\ UNCHANGED <<sessionVars, fallbackVars, runVars, decodeVars>>

NextCache ==
    \/ CacheNew
    \/ \E tok \in CacheTokens : AppendStep(tok)
    \/ Clear
    \/ GetTensorMap
    \/ \E m \in LoadedMaps : LoadMap(m)
    \/ RestoreBegin
    \/ RestoreEntry
    \/ RestoreEnd

\* ------------------------------------------------- Decoder::decode

\* states of the random generator
RngStates == 3

\* values of an f32 logit, as integers in the order of f32::total_cmp
\* (model.rs:325): negative NaN, -inf, the finite values, positive NaN
NegNaN == -101
NEG_INFINITY == -100
PosNaN == 100
IsNaN(x) == x \in { NegNaN, PosNaN }
IsFinite(x) == ~IsNaN(x) /\ x # NEG_INFINITY

\* the vocabulary (config.vocab_size tokens), config.suppress_tokens, and
\* the ids of the end-of-text and the no-speech token (model.rs:208-212)
Vocab == { 0, 1, 2 }
SuppressTokens == { 1 }
EOT_TOKEN == 2
NO_SPEECH_TOKEN == 0
\* model.rs:248-256: sot, the task token and no_timestamps start tokens
PromptTokens == 3
\* model.rs:245, sample_len = max_target_positions / 2
MaxTargetPositions == 2 * SampleLen

Row(a, b, c) == (0 :> a) @@ (1 :> b) @@ (2 :> c)

\* the logits the decoder can give for the last position: one token ahead,
\* ties, a suppressed token ahead, only a suppressed token finite, nothing
\* finite, and a NaN of either sign at a suppressed token
LastRows ==
    { Row(1, 0, 0), Row(0, 1, 0), Row(0, 0, 1), Row(1, 1, 1),
      Row(NEG_INFINITY, 0, NEG_INFINITY),
      Row(NEG_INFINITY, NEG_INFINITY, NEG_INFINITY),
      Row(0, PosNaN, 0), Row(0, NegNaN, 1) }
\* the logits it can give for the first position
FirstRows == { Row(1, 0, 0), Row(0, 0, 1) }
\* model.rs:262-278, ys of one forward call
ForwardOutputs == { [first |-> f, last |-> l] : f \in FirstRows, l \in LastRows }

\* model.rs:194-203, the tensor suppress_tokens
SuppressMask == [t \in Vocab |-> IF t \in SuppressTokens THEN NEG_INFINITY ELSE 0]

\* f32 addition of a logit and an entry of the mask: a NaN stays a NaN
AddF32(x, m) ==
    IF IsNaN(x) THEN x
    ELSE IF x = NEG_INFINITY \/ m = NEG_INFINITY THEN NEG_INFINITY
    ELSE x + m

\* model.rs:312, logits.broadcast_add(&self.suppress_tokens)
Masked(logits) == [t \in Vocab |-> AddF32(logits[t], SuppressMask[t])]

\* model.rs:322-327, max_by(total_cmp) over the enumerated logits: the last
\* of the largest entries
ArgMax(v) ==
    CHOOSE t \in Vocab : \A u \in Vocab : v[u] < v[t] \/ (v[u] = v[t] /\ u <= t)

\* model.rs:315-318: softmax gives NaN weights when a logit is NaN or all
\* are -inf, and WeightedIndex::new refuses them (the expect panics)
WeightsValid(v) ==
    /\ \A t \in Vocab : ~IsNaN(v[t])
    /\ \E t \in Vocab : v[t] # NEG_INFINITY

\* the tokens with a weight above 0: softmax gives 0 for -inf
Weighted(v) == { t \in Vocab : v[t] # NEG_INFINITY }

\* model.rs:319, distr.sample(&mut self.rng): the generator's state picks
\* among the tokens with a weight above 0, and moves on
Sample(v, r) ==
    CHOOSE t \in Weighted(v) :
        Cardinality({ u \in Weighted(v) : u < t }) = r % Cardinality(Weighted(v))
NextRng(r) == (r + 1) % RngStates

\* a decode that draws from the generator at every temperature
SamplesAtEveryTemperature(t) == t >= 0

\* model.rs:313, if temperature > 0f64
SamplesAt(t) == t > 0

\* a decode that takes the no-speech probability anew at every step
AssignsNoSpeechAtEveryStep(i) == i >= 0

\* model.rs:283, if i == 0
AssignsNoSpeech(i) == i = 0

\* softmax(logits)[t] as f64, and f64::NAN (model.rs:247)
Prob(logits, t) == [nan |-> FALSE, of |-> logits, at |-> t]
NanProb == [nan |-> TRUE, of |-> Row(0, 0, 0), at |-> 0]

\* model.rs:237-260, decode is called at temperature t with the generator
\* in state r
DecodeBegin(t, r) ==
    /\ dpc = "idle"
    /\ dpc' = "steps"
    /\ temperature' = t
    /\ rng' = r
    /\ seed' = r
    /\ step_i' = 0
    /\ dtokens' = <<>>
    /\ no_speech' = NanProb
    /\ sum_logprob' = <<>>
    /\ ys_log' = <<>>
    /\ UNCHANGED <<sessionVars, fallbackVars, runVars, cacheVars>>

\* model.rs:261-337, one turn of the loop: forward, the no-speech
\* probability on the first turn, the mask, the choice of next_token, the
\* break
DecodeTurn ==
    /\ dpc = "steps"
    /\ step_i < SampleLen
    /\ \E ys \in ForwardOutputs :
          LET logits == Masked(ys.last)
              sampling == SamplesAt(temperature)
              next_token == IF sampling THEN Sample(logits, rng)
                                        ELSE ArgMax(logits)
          IN  /\ ys_log' = Append(ys_log, ys)
              /\ no_speech' = IF AssignsNoSpeech(step_i)
                                   THEN Prob(ys.first, NO_SPEECH_TOKEN)
                                   ELSE no_speech
              /\ IF sampling /\ ~WeightsValid(logits)
                 THEN /\ dpc' = "panicked"
                      /\ UNCHANGED <<step_i, dtokens, rng, sum_logprob>>
                 ELSE /\ dtokens' = Append(dtokens, next_token)
                      /\ rng' = IF sampling THEN NextRng(rng) ELSE rng
                      /\ IF next_token = EOT_TOKEN
                             \/ PromptTokens + Len(dtokens) + 1 > MaxTargetPositions
                         THEN /\ dpc' = "ended"
                              /\ UNCHANGED <<step_i, sum_logprob>>
                         ELSE /\ sum_logprob' = Append(sum_logprob,
                                                       Prob(logits, next_token))
                              /\ step_i' = step_i + 1
                              /\ UNCHANGED dpc
    /\ UNCHANGED <<temperature, seed>>
    /\ UNCHANGED <<sessionVars, fallbackVars, runVars, cacheVars>>

\* a `?` of the loop gives an Err: forward, final_linear, softmax
DecodeTurnErr ==
    /\ dpc = "steps"
    /\ step_i < SampleLen
    /\ dpc' = "err"
    /\ UNCHANGED <<temperature, step_i, dtokens, rng, seed, no_speech,
                   sum_logprob, ys_log>>
    /\ UNCHANGED <<sessionVars, fallbackVars, runVars, cacheVars>>

\* model.rs:339-350, after the loop: tokenizer.decode, and the result
DecodeFinish ==
    /\ dpc = "ended" \/ (dpc = "steps" /\ step_i = SampleLen)
    /\ dpc' \in { "done", "err" }
    /\ UNCHANGED <<temperature, step_i, dtokens, rng, seed, no_speech,
                   sum_logprob, ys_log>>
    /\ UNCHANGED <<sessionVars, fallbackVars, runVars, cacheVars>>

NextDecode ==
    \/ \E t \in { TemperatureAt(0), TemperatureAt(1) }, r \in 0..(RngStates - 1) :
          DecodeBegin(t, r)
    \/ DecodeTurn
    \/ DecodeTurnErr
    \/ DecodeFinish

\* a fresh registry, a decode_with_fallback call about to start, a run
\* about to be called with the consumer listening, and a new LlamaCache
Init ==
    /\ sessions = EmptySlab
    /\ vector_dbs = EmptySlab
    /\ pc = "idle"
    /\ frame = NoFrame
    /\ ret = NoRet
    /\ nextUid = 1
    /\ handles = {}
    /\ removed = {}
    /\ inflight = <<>>
    /\ fpc = "loop"
    /\ ti = 0
    /\ attempts = <<>>
    /\ errlog = <<>>
    /\ returned = NoOutcome
    /\ rpc = "start"
    /\ content_frames = 0
    /\ seek = 0
    /\ chunk_indices = <<>>
    /\ ci = 1
    /\ fragment = <<>>
    /\ di = 0
    /\ dstate = "steps"
    /\ queue = <<>>
    /\ received = <<>>
    /\ rxAlive = TRUE
    /\ chunklog = <<>>
    /\ cache = LlamaCacheNew(NLayer, ContextLength)
    /\ tmap = None
    /\ cpc = "idle"
    /\ rest = {}
    /\ building = NoBuilding
    /\ saved = [cache |-> LlamaCacheNew(NLayer, ContextLength), appendsOnly |-> TRUE]
    /\ appendsOnly = TRUE
    /\ dpc = "idle"
    /\ temperature = 0
    /\ step_i = 0
    /\ dtokens = <<>>
    /\ rng = 0
    /\ seed = 0
    /\ no_speech = NanProb
    /\ sum_logprob = <<>>
    /\ ys_log = <<>>

SpecDecode == Init /\ [][NextDecode]_vars

SpecFallback == Init /\ [][NextFallback]_vars

SpecRun == Init /\ [][NextRun]_vars

SpecCache == Init /\ [][NextCache]_vars

\* run is a thread of its own: it goes on as long as it has a step to take
SpecRunFair == SpecRun /\ WF_vars(RunStep)

SpecSessions == Init /\ [][NextSessions]_vars

\* ------------------------------------------------- claims on the registry

RemovedUids == { r.uid : r \in removed }
\* the handles of the sessions created and not yet removed
LiveHandles == { h \in handles : h.uid \notin RemovedUids }

\* a call made with handle uid `via` reached session `reached`, which was
\* created after the session of `via` was removed
ReachedLater(via, reached) ==
    \E r \in removed : r.uid = via /\ reached # 0 /\ reached >= r.at

\* C1: once remove(h) has run, no later lookup or infer made with the stale
\* handle h reaches a session that was created after that removal: a
\* reused slot does not alias the removed handle.
C1_StaleHandleNeverAliases ==
    /\ ret.op \in { "infer", "get_embedding" }
          => ~ReachedLater(ret.via, ret.reached)
    /\ pc = "infer" => ~ReachedLater(frame.via, frame.reached)

\* C2: once remove(h) has run, a later infer(h, ...) or get_embedding(h, ...)
\* ends with an UnknownSession lookup error returned to the caller; it does
\* not panic and it does not start to run.
C2_StaleHandleIsLookupError ==
    /\ (ret.op \in { "infer", "get_embedding" } /\ ret.via \in RemovedUids)
          => ret.outcome = "UnknownSession"
    /\ pc = "infer" => frame.via \notin RemovedUids

\* C3: the handles of the live sessions are pairwise distinct: create() never
\* returns the handle value of a session that has not been removed.
C3_LiveHandlesDistinct ==
    \A a, b \in LiveHandles : a.id = b.id => a = b

\* C3 witness: a create() has reused the slot of a removed session while
\* another session was live.
C3_Witness ==
    /\ ret.op = "create"
    /\ \E old \in handles : old.uid \in RemovedUids /\ old.id = ret.id
    /\ Cardinality(LiveHandles) >= 2

\* s is a suffix of t
IsSuffix(s, t) ==
    /\ Len(s) <= Len(t)
    /\ SubSeq(t, Len(t) - Len(s) + 1, Len(t)) = s

\* the text accumulated over the first k tokens of gen
Accumulated(gen, k) == Flat(SubSeq(gen, 1, k))

\* C4: with a stop string, generation halts at the first inferred token after
\* which the stop string is a suffix of the accumulated output: while infer
\* goes on, no token so far has left the output ending in the stop string.
C4_HaltsOnStopSuffix ==
    (pc = "infer" /\ frame.stop # None) =>
        \A k \in 1 .. Len(frame.gen) :
            ~IsSuffix(Unwrap(frame.stop), Accumulated(frame.gen, k))

\* text without its last n characters
DropLast(text, n) == SubSeq(text, 1, Len(text) - n)

\* C5: when generation stops on a stop-string match the returned text is the
\* accumulated output without the matching stop suffix, also when the stop
\* string is spread over several tokens; and the tokens "Hello", " World"
\* with stop string " World" return exactly "Hello".
C5_StopSuffixNotReturned ==
    (ret.op = "infer" /\ ret.outcome = "ok" /\ ret.stop # None) =>
        /\ ret.halt = "stop" =>
              ret.text = DropLast(Flat(ret.gen), Len(Unwrap(ret.stop)))
        /\ (ret.stop = Some(<<"W">>) /\ Len(ret.gen) >= 2
               /\ SubSeq(ret.gen, 1, 2) = << <<"H">>, <<"W">> >>)
              => ret.text = <<"H">>

\* ------------------------------------------- claims on decode_with_fallback

NumAttempts == Len(attempts)

\* the acceptance rule of the fallback ladder as the design states it, on the
\* fields of a result: no fallback unless the compression ratio is above the
\* ceiling or the average log-probability below the floor, or when the
\* no-speech probability is above its threshold
AcceptedByLadder(dr) ==
    /\ dr.kind = "ok"
    /\ \/ ~(\/ Gt(dr.compression_ratio, F(COMPRESSION_RATIO_THRESHOLD))
            \/ Lt(dr.avg_logprob, F(LOGPROB_THRESHOLD)))
       \/ Gt(dr.no_speech_prob, F(NO_SPEECH_THRESHOLD))

\* C6: the temperatures are attempted one at a time in strictly increasing
\* configured order from the lowest; the call returns the result of the first
\* accepted attempt, and no attempt follows an accepted one.
C6_LadderOrder ==
    /\ \A k \in 1 .. NumAttempts : attempts[k].t = TEMPERATURES[k]
    /\ \A j, k \in 1 .. NumAttempts : j < k => attempts[j].t < attempts[k].t
    /\ \A k \in 1 .. NumAttempts - 1 : ~AcceptedByLadder(attempts[k].dr)
    /\ fpc = "returned" =>
          /\ returned = attempts[NumAttempts].dr
          /\ AcceptedByLadder(returned) \/ NumAttempts = Len(TEMPERATURES)
    /\ (NumAttempts > 0 /\ AcceptedByLadder(attempts[NumAttempts].dr)) => fpc = "returned"

\* C6 witness: the first temperature's result failed the quality threshold and
\* the second one's was accepted and returned.
C6_Witness ==
    /\ fpc = "returned"
    /\ NumAttempts = 2
    /\ attempts[1].dr.kind = "ok"
    /\ ~AcceptedByLadder(attempts[1].dr)
    /\ AcceptedByLadder(returned)

\* attempt k was followed by a fallback to the next temperature
FellBack(k) == k < NumAttempts \/ fpc = "loop"

\* C7: a result at a non-final temperature falls back to the next temperature
\* exactly when the compression ratio of its text is above the ceiling or its
\* average log-probability below the floor, and its no-speech probability is
\* not above the threshold; so a text repetitive enough to compress above the
\* ceiling is retried.
C7_FallbackOnCompressionRatio ==
    \A k \in 1 .. NumAttempts :
        (k < Len(TEMPERATURES) /\ attempts[k].dr.kind = "ok") =>
            LET dr == attempts[k].dr IN
            FellBack(k) <=>
                /\ \/ Gt(dr.text_ratio, F(COMPRESSION_RATIO_THRESHOLD))
                   \/ Lt(dr.avg_logprob, F(LOGPROB_THRESHOLD))
                /\ ~Gt(dr.no_speech_prob, F(NO_SPEECH_THRESHOLD))

\* a result with low confidence and high no-speech probability
LowConfidenceNoSpeech(dr) ==
    /\ dr.kind = "ok"
    /\ Lt(dr.avg_logprob, F(LOGPROB_THRESHOLD))
    /\ Gt(dr.no_speech_prob, F(NO_SPEECH_THRESHOLD))

\* C8: a result whose average log-probability is below the floor and whose
\* no-speech probability is above the threshold is returned at the temperature
\* where it occurs: no higher temperature is attempted.
C8_NoSpeechShortCircuit ==
    \A k \in 1 .. NumAttempts :
        LowConfidenceNoSpeech(attempts[k].dr) =>
            /\ k = NumAttempts
            /\ fpc = "returned"
            /\ returned = attempts[k].dr

\* C8 witness: such a result came at the second temperature, after a fallback.
C8_Witness ==
    /\ NumAttempts = 2
    /\ attempts[1].dr.kind = "ok"
    /\ LowConfidenceNoSpeech(attempts[2].dr)
    /\ fpc = "returned"

\* C9 as stated: when every temperature is exhausted the outcome of the last
\* attempt is returned, and what is returned is never an error.
C9_ExhaustedNeverError ==
    NumAttempts = Len(TEMPERATURES) =>
        (fpc = "returned" => (returned = attempts[NumAttempts].dr /\ returned.kind # "err"))

\* C9 amended: when every temperature is exhausted and the last attempt comes
\* back, the call returns that attempt's outcome whatever its quality: its
\* result when it succeeded, its error when it failed.
C9_ExhaustedReturnsLast ==
    NumAttempts = Len(TEMPERATURES) =>
        LET last == attempts[NumAttempts].dr IN
        IF last.kind = "panic"
        THEN fpc = "panicked"
        ELSE fpc = "returned" /\ returned = last

\* C9 witness: the ladder was exhausted and the last result, still below the
\* quality thresholds, was returned.
C9_Witness ==
    /\ NumAttempts = Len(TEMPERATURES)
    /\ fpc = "returned"
    /\ returned.kind = "ok"
    /\ ~AcceptedByLadder(returned)

\* C10: an error raised by a decode attempt, at whichever temperature, ends
\* the call and is what the call returns to its caller.
C10_ErrorPropagated ==
    \A k \in 1 .. NumAttempts :
        attempts[k].dr.kind = "err" =>
            /\ k = NumAttempts
            /\ fpc = "returned"
            /\ returned.kind = "err"

\* ------------------------------------------------- claims on Decoder::run

\* the entries of the log whose chunk ended with a call of send
SendCalled(e) == e.status \in { "sent", "send_failed" }
\* a send has failed: the consumer had dropped its receiver
SendFailed == \E i \in 1..Len(chunklog) : chunklog[i].status = "send_failed"
RunEnded == rpc \in { "done", "err", "panicked" }

\* run has the result of decode_with_fallback in hand and it is non-speech
HoldsNonSpeech ==
    rpc = "decode" /\ fpc = "returned" /\ LowConfidenceNoSpeech(returned)

\* C11: no Segment is ever sent whose result has both a no-speech probability
\* above the threshold and an average log-probability below the floor; a chunk
\* with such a result ends with no Segment and no error, and the step run
\* takes with it is to the next chunk of the for loop, the channel untouched.
C11_NonSpeechNeverSent ==
    /\ [](/\ \A i \in 1..Len(chunklog) :
                /\ SendCalled(chunklog[i]) => ~LowConfidenceNoSpeech(chunklog[i].result)
                /\ LowConfidenceNoSpeech(chunklog[i].result)
                      => chunklog[i].status = "dropped"
          /\ \A i \in 1..Len(queue) : ~LowConfidenceNoSpeech(queue[i].result)
          /\ \A i \in 1..Len(received) : ~LowConfidenceNoSpeech(received[i].result))
    /\ [][HoldsNonSpeech =>
            \/ rpc' = rpc
            \/ /\ rpc' = "for"
               /\ ci' = ci + 1
               /\ <<received, queue>>' = <<received, queue>>]_vars

\* a chunk was dropped as non-speech and run has gone on to decode the next
C11_Witness ==
    \E i \in 1..Len(chunklog) :
        /\ chunklog[i].status = "dropped"
        /\ LowConfidenceNoSpeech(chunklog[i].result)
        /\ i < Len(chunklog)

\* the tokens of the text after the last terminator of `text`
FragmentOf(text) ==
    Encode(TextAfterLastSentence(text, Unwrap(LastTerminal(text))))

\* C12: for two consecutive chunks A then B of one transcription where A's
\* result is emitted, the decode of B is primed with the tokens of the text
\* that follows the last '.', '?' or '!' of A's text.
C12_PrimedWithFragment ==
    \A i \in 1..(Len(chunklog) - 1) :
        (chunklog[i].status = "sent" /\ LastTerminal(chunklog[i].text) # None)
            => chunklog[i + 1].primed = FragmentOf(chunklog[i].text)

\* C13: after a Segment send has failed because the consumer dropped its
\* receiver, run encodes and decodes no remaining chunk: the chunk of the
\* failed send is the last one handled and run is at its loop test or has
\* returned Ok.
C13_StopsAfterFailedSend ==
    SendFailed =>
        /\ chunklog[Len(chunklog)].status = "send_failed"
        /\ rpc \in { "while", "done" }

\* model.rs:160-165, transcribe returns normally on Ok and on Err of run
TranscribeReturns == rpc \in { "done", "err" }

\* C14: when a Segment send has failed, run ends with Ok, never with an
\* error, and transcribe returns normally.
C14_FailedSendEndsOk ==
    (SendFailed /\ RunEnded) => (rpc = "done" /\ TranscribeReturns)

IsSent(e) == e.status = "sent"
\* the Segments that entered the channel, in the order of their sends
SentSegments ==
    LET es == SelectSeq(chunklog, IsSent)
    IN  [i \in 1..Len(es) |-> Segment(es[i].range, es[i].result, es[i].text)]
\* the chunks for which send was called, in the order of the calls
SendCalls == SelectSeq(chunklog, SendCalled)

\* C15: Segments are sent in generation order and at most once per chunk: the
\* chunk range of each send is not empty and starts at or after the end of
\* the range of every earlier send; the consumer receives the Segments in the
\* order they were sent, none skipped.
C15_SegmentsInOrder ==
    /\ \A j \in 1..Len(SendCalls) :
          /\ SendCalls[j].range.start < SendCalls[j].range.end
          /\ \A i \in 1..(j - 1) :
                SendCalls[i].range.end <= SendCalls[j].range.start
    /\ Len(received) <= Len(SentSegments)
    /\ \A i \in 1..Len(received) : received[i] = SentSegments[i]

\* the consumer has received the Segments of two chunks
C15_Witness ==
    /\ Len(received) = 2
    /\ received[1].range.end <= received[2].range.start

\* the chunks whose decode gave a result that is not non-speech
IsKept(e) == e.result.kind = "ok" /\ ~LowConfidenceNoSpeech(e.result)
\* those of them whose fragment the tokenizer encoded, so that run got to
\* build the Segment
IsBuilt(e) == IsKept(e) /\ e.status # "tokenizer_error"
SegmentsOf(es) == [i \in 1..Len(es) |-> Segment(es[i].range, es[i].result, es[i].text)]

OuterIteration == rpc = "while" /\ rpc' \in { "for", "err" }

\* C17: run terminates on every input and its stream is finite: run ends;
\* each iteration of the outer loop advances seek by at least one frame and
\* never past content_frames; the chunks handled, and so the Segments sent,
\* are at most content_frames; the k-th decode attempt of a chunk is at the
\* k-th temperature, so that no temperature is tried twice; and a decode
\* attempt makes at most SampleLen steps.
C17_RunTerminates ==
    /\ <>RunEnded
    /\ [][OuterIteration => (seek' >= seek + 1 /\ seek' <= content_frames)]_vars
    /\ [](/\ seek <= content_frames
          /\ Len(chunklog) <= content_frames
          /\ Len(received) + Len(queue) <= content_frames
          /\ Len(attempts) <= Len(TEMPERATURES)
          /\ \A k \in 1..Len(attempts) : attempts[k].t = TEMPERATURES[k]
          /\ di <= SampleLen)

\* run has returned Ok with every frame cut into one of two chunks
C17_Witness ==
    /\ rpc = "done"
    /\ seek = content_frames
    /\ Len(chunklog) = 2

\* ------------------------------------------------- claims on LlamaCache

\* C18: clear leaves every layer block empty (sequence length 0) and the
\* token history empty, and keeps the number of layers and max_seq_len.
C18_ClearEmptiesCache ==
    [][Clear =>
          /\ \A i \in 1..Len(cache'.blocks) :
                SeqLen(cache'.blocks[i].k) = 0 /\ SeqLen(cache'.blocks[i].v) = 0
          /\ cache'.tokens = <<>>
          /\ Len(cache'.blocks) = Len(cache.blocks)
          /\ cache'.max_seq_len = cache.max_seq_len]_vars

\* C19: after any sequence of new, decode-step appends, clear, get_tensor_map
\* and from_tensor_map, the length of the token history equals the sequence
\* length of the key and of the value of every layer block, so that all
\* blocks have the same sequence length.
C19_HistoryMatchesBlocks ==
    \A i \in 1..Len(cache.blocks) :
        /\ SeqLen(cache.blocks[i].k) = Len(cache.tokens)
        /\ SeqLen(cache.blocks[i].v) = Len(cache.tokens)

\* C20: for every cache c reached from new by decode-step appends, the
\* cache with no appended token included, from_tensor_map(get_tensor_map(c))
\* has as many layer blocks as c, the key and value contents of c in every
\* layer, the token history of c and the max_seq_len of c.
C20_RoundTrip ==
    [][(RestoreEnd /\ saved.appendsOnly) =>
          /\ Len(cache'.blocks) = Len(saved.cache.blocks)
          /\ \A i \in 1..Len(cache'.blocks) :
                i <= Len(saved.cache.blocks) =>
                    /\ cache'.blocks[i].k.data = saved.cache.blocks[i].k.data
                    /\ cache'.blocks[i].v.data = saved.cache.blocks[i].v.data
          /\ cache'.tokens = saved.cache.tokens
          /\ cache'.max_seq_len = saved.cache.max_seq_len]_vars

\* C21: a restored cache accepts a further generation step: for every layer
\* the restored key cache and value cache have a capacity equal to the
\* recorded max_seq_len, so that an append of one position whose resulting
\* length is at most max_seq_len succeeds.
C21_RestoredCapacity ==
    [][RestoreEnd =>
          \A i \in 1..Len(cache'.blocks) :
              /\ cache'.blocks[i].k.cap = cache'.max_seq_len
              /\ cache'.blocks[i].v.cap = cache'.max_seq_len
              /\ SeqLen(cache'.blocks[i].k) + 1 <= cache'.max_seq_len
                    => CanAppend(cache'.blocks[i].k, << KeyOf(i, 7) >>)
              /\ SeqLen(cache'.blocks[i].v) + 1 <= cache'.max_seq_len
                    => CanAppend(cache'.blocks[i].v, << ValueOf(i, 7) >>)]_vars

\* C22: get_tensor_map of a cache with L layers gives, for every layer i in
\* 0..L-1, one key entry and one value entry named by i, and the tokens entry
\* and the max length entry, and nothing else.
C22_MapHasEveryLayer ==
    [][GetTensorMap =>
          DOMAIN Unwrap(tmap') =
              { BlockName(i - 1, ".key") : i \in 1..Len(cache.blocks) }
                  \cup { BlockName(i - 1, ".value") : i \in 1..Len(cache.blocks) }
                  \cup { TokensName, MaxSeqLenName }]_vars

\* the entries of a map under the blocks prefix that end in .key or .value,
\* the text between prefix and suffix, and those whose text is a number
IsBlockEntry(name) ==
    /\ name[1] = BlocksPrefix
    /\ Len(name) >= 2
    /\ name[Len(name)] \in { ".key", ".value" }
IndexText(name) == SubSeq(name, 2, Len(name) - 1)
BlockEntries(map) == { name \in DOMAIN map : IsBlockEntry(name) }
IndexedEntries(map) ==
    { name \in BlockEntries(map) : ParseUsize(IndexText(name)) # None }
LayerOf(name) == Unwrap(ParseUsize(IndexText(name)))
HalfOf(block, name) == IF name[Len(name)] = ".key" THEN block.k ELSE block.v
Largest(S) == IF S = {} THEN -1 ELSE CHOOSE x \in S : \A y \in S : y <= x

\* C23: from_tensor_map places each block entry into the block whose index is
\* parsed from the key of the entry, makes every layer below the largest
\* index that has no entry an empty block with the recorded max length, and
\* gives this result in whatever order the entries of the map are visited.
C23_PlacedByParsedIndex ==
    [][RestoreEnd =>
          LET map == Unwrap(tmap)
              layers == { LayerOf(name) : name \in IndexedEntries(map) }
          IN  /\ Len(cache'.blocks) = Largest(layers) + 1
              /\ \A name \in IndexedEntries(map) :
                    HalfOf(cache'.blocks[LayerOf(name) + 1], name).data
                        = map[name].data
              /\ \A j \in 1..Len(cache'.blocks) :
                    (j - 1) \notin layers
                        => cache'.blocks[j] = NewKvCache(cache'.max_seq_len)]_vars

\* C24: a block entry whose layer index cannot be parsed does not abort the
\* restore and leaves the key and value contents of every validly indexed
\* layer as the map gives them.
C24_UnparseableIndexHarmless ==
    [][(RestoreEnd /\ BlockEntries(Unwrap(tmap)) # IndexedEntries(Unwrap(tmap))) =>
          \A name \in IndexedEntries(Unwrap(tmap)) :
              /\ LayerOf(name) < Len(cache'.blocks)
              /\ HalfOf(cache'.blocks[LayerOf(name) + 1], name).data
                    = Unwrap(tmap)[name].data]_vars

\* C25: from_tensor_map never fails or panics because of unknown or missing
\* keys: a missing tokens entry gives an empty history, a missing max_seq_len
\* entry gives the default, and every unrecognised key, a key under the
\* blocks prefix that ends in neither .key nor .value included, is ignored.
C25_UnknownKeysIgnored ==
    /\ [](cpc \notin { "panic", "err" })
    /\ [][RestoreEnd =>
            /\ TokensName \notin DOMAIN Unwrap(tmap) => cache'.tokens = <<>>
            /\ MaxSeqLenName \notin DOMAIN Unwrap(tmap)
                  => cache'.max_seq_len = DEFAULT_MAX_SEQ_LEN]_vars

\* ------------------------------------- claims on the callers of the registry

\* the infer calls in flight on the session of slab key id
InFlightOn(id) == { i \in 1..Len(inflight) : inflight[i] = id }

\* C26: at most one infer is in flight per session handle, whatever the
\* order in which callers start create, remove, get_embedding and infer: no
\* two calls mutate the same session at the same time.
C26_OneInferPerSession ==
    \A id \in 0..MaxCreates : Cardinality(InFlightOn(id)) <= 1

\* an infer on a live session is between two decode steps while another
\* session is live
C26_Witness ==
    /\ pc = "infer"
    /\ frame.n >= 1
    /\ InFlightOn(frame.id) # {}
    /\ \E h \in LiveHandles : h.id # frame.id

\* C27: the exclusive access to the slot table is held for a table operation
\* only, never across a decode step: while an infer on one handle is in
\* progress, a create, a remove of another live session and an infer on
\* another live session can start.
C27_TableFreeDuringInfer ==
    pc = "infer" =>
        /\ nextUid <= MaxCreates => ENABLED (\E ty \in ModelTypes : Create(ty))
        /\ \A h \in LiveHandles :
              h.id # frame.id =>
                  /\ ENABLED Remove(h)
                  /\ ENABLED (\E p \in PromptLens, max \in MaxTokenOpts,
                                 stop \in StopOpts : Infer(h, p, max, stop))

\* the sessions of the live handles in hs are what they were before the step
SameSessions(hs) ==
    \A o \in hs : SlabGet(sessions', o.id) = SlabGet(sessions, o.id)

\* C28: create(), remove(h) and infer(h, ..) leave every other live session
\* unchanged: each other live handle still refers to the same model and the
\* same session state as before the call, also when the infer on h ends with
\* an error of the computation, and the table of vector indexes is unchanged.
C28_OtherSessionsUnchanged ==
    [][/\ vector_dbs' = vector_dbs
       /\ (\E ty \in ModelTypes : Create(ty)) => SameSessions(LiveHandles)
       /\ \A h \in CallerHandles :
             /\ Remove(h) => SameSessions(LiveHandles \ { h })
             /\ (\E p \in PromptLens, max \in MaxTokenOpts, stop \in StopOpts :
                    Infer(h, p, max, stop)) => SameSessions(LiveHandles \ { h })
       /\ pc = "infer" =>
             SameSessions({ o \in LiveHandles : o.uid # frame.via })]_vars

\* the last finished call was made with the handle of a session that is live
RetOnLiveSession == \E h \in LiveHandles : h.uid = ret.via /\ h.id = ret.id

\* C29: when the inference of infer(h, ..) on a live handle fails, infer
\* gives its caller a structured error and does not panic: the registry and
\* the session stay usable.
C29_InferErrorReported ==
    (ret.op = "infer" /\ RetOnLiveSession /\ ret.outcome # "ok") =>
        /\ ret.outcome = "error"
        /\ pc = "idle"

\* C30: remove(h) for a handle that is not live is reported as a lookup
\* failure, does not panic, and leaves the table of sessions and the table
\* of vector indexes unchanged.
C30_RemoveOfDeadHandle ==
    [][\A h \in CallerHandles \ LiveHandles :
          Remove(h) =>
              /\ ret'.outcome = "not_found"
              /\ pc' = "idle"
              /\ sessions' = sessions
              /\ vector_dbs' = vector_dbs]_vars

\* ------------------------------------------------ claims on infer's result

\* C31: infer returns the concatenation, in generation order, of exactly the
\* token texts inferred before the halt (the token on which a stop string
\* halts it is not among them); the end-of-text token adds no text; and the
\* call ends when the end-of-text token is produced or when the configured
\* maximum token count is reached.
C31_ReturnsInferredTexts ==
    /\ [](ret.op = "infer" /\ ret.outcome = "ok" /\ ret.halt \in { "eot", "max" }
            => ret.text = Flat(ret.gen))
    /\ [](ret.op = "infer" /\ ret.outcome = "ok" /\ ret.halt = "stop"
            => ret.text = Flat(SubSeq(ret.gen, 1, Len(ret.gen) - 1)))
    /\ [](pc = "infer" => frame.buf = Flat(frame.gen))
    /\ [](pc = "infer" /\ frame.max # None
            => Len(frame.gen) <= Unwrap(frame.max))
    /\ [][InferEot => (pc' = "idle" /\ ret'.text = frame.buf)]_vars
    /\ [][(pc = "infer" /\ frame.max # None
             /\ Len(frame.gen) >= Unwrap(frame.max)) => pc' # "infer"]_vars

\* an infer that generated two tokens has ended on the end-of-text token
C31_Witness ==
    /\ ret.op = "infer"
    /\ ret.outcome = "ok"
    /\ ret.halt = "eot"
    /\ Len(ret.gen) = 2

\* ------------------------------------ claims on the errors of the ladder

\* C32: when the decode attempt at a temperature that is not the last returns
\* an error, decode_with_fallback logs it and attempts the next temperature;
\* only the outcome of the attempt at the last temperature, success or
\* error, is returned without another attempt.
C32_ErrorLoggedAndRetried ==
    /\ \A k \in 1..Len(attempts) :
          (attempts[k].dr.kind = "err" /\ k < Len(TEMPERATURES)) =>
              /\ \E j \in 1..Len(errlog) : errlog[j] = attempts[k].t
              /\ fpc # "returned" \/ Len(attempts) > k
              /\ Len(attempts) > k => attempts[k + 1].t = TEMPERATURES[k + 1]
              /\ Len(attempts) = k => (fpc = "loop" /\ ti = k)
    /\ (fpc = "returned" /\ returned.kind = "err") =>
          Len(attempts) = Len(TEMPERATURES)
    /\ Len(attempts) <= Len(TEMPERATURES)
    /\ (Len(attempts) = Len(TEMPERATURES)
           /\ attempts[Len(attempts)].dr.kind # "panic") =>
          (fpc = "returned" /\ returned = attempts[Len(attempts)].dr)

\* the first attempt failed and a later one was returned as a success
C32_Witness ==
    /\ fpc = "returned"
    /\ Len(attempts) >= 2
    /\ attempts[1].dr.kind = "err"
    /\ returned.kind = "ok"
    /\ errlog # <<>>

\* ------------------------------------------ claims on the steps of decode

\* C33: at temperature 0 every decode step selects the arg-max of the
\* suppression-masked logits without consuming the random generator: the
\* tokens of the run are determined by the backend's outputs alone, whatever
\* the state of the generator, and the generator's state is the one the run
\* began with.
C33_GreedyIgnoresGenerator ==
    (temperature = 0 /\ dpc # "idle") =>
        /\ rng = seed
        /\ dpc # "panicked"
        /\ Len(dtokens) <= Len(ys_log)
        /\ \A k \in 1..Len(dtokens) :
              dtokens[k] = ArgMax(Masked(ys_log[k].last))

\* a run at temperature 0 that began with the generator in a later state has
\* chosen two tokens and built its result
C33_Witness ==
    /\ temperature = 0
    /\ dpc = "done"
    /\ seed = RngStates - 1
    /\ Len(dtokens) = 2

\* C34: a token of suppress_tokens is never chosen as the next token by a
\* decode step, at temperature 0 or above, when at least one token that is
\* not suppressed has a finite logit.
C34_SuppressedNeverChosen ==
    \A k \in 1..Len(dtokens) :
        (\E t \in Vocab \ SuppressTokens : IsFinite(ys_log[k].last[t]))
            => dtokens[k] \notin SuppressTokens

\* C35: within one decode attempt the no-speech probability is assigned in
\* the first step only (i = 0), from the logits of the first position, and no
\* later step changes it: it depends neither on the tokens chosen afterwards
\* nor on the accumulated log-probability.
C35_NoSpeechFromFirstStep ==
    /\ []((dpc = "steps" /\ ys_log = <<>>) => no_speech = NanProb)
    /\ [](ys_log # <<>> => no_speech = Prob(ys_log[1].first, NO_SPEECH_TOKEN))
    /\ [][(DecodeTurn /\ step_i > 0) => no_speech' = no_speech]_vars

\* the second step of an attempt was given other first-position logits than
\* the first step, and has chosen its token
C35_Witness ==
    /\ Len(ys_log) = 2
    /\ Len(dtokens) = 2
    /\ ys_log[2].first # ys_log[1].first
    /\ no_speech = Prob(ys_log[1].first, NO_SPEECH_TOKEN)

\* ------------------------------------------------ claims on run's chunks

RangeOf(k) == chunklog[k].range

\* C36: the chunk ranges run processes are contiguous and do not overlap,
\* start at frame 0 and, when run has gone through its loop, cover exactly
\* [0, content_frames); each has between 1 and N_FRAMES frames, and every
\* chunk but the last has exactly N_FRAMES.
C36_ChunksPartitionFrames ==
    /\ \A k \in 1..Len(chunklog) :
          /\ RangeOf(k).start = IF k = 1 THEN 0 ELSE RangeOf(k - 1).end
          /\ RangeOf(k).end - RangeOf(k).start \in 1..N_FRAMES
          /\ RangeOf(k).end <= content_frames
          /\ k < Len(chunklog) => RangeOf(k).end - RangeOf(k).start = N_FRAMES
    /\ rpc = "done" =>
          IF chunklog = <<>> THEN content_frames = 0
          ELSE RangeOf(Len(chunklog)).end = content_frames

\* run has gone through a spectrogram that ends in a partial chunk
C36_Witness ==
    /\ rpc = "done"
    /\ Len(chunklog) >= 2
    /\ RangeOf(Len(chunklog)).end - RangeOf(Len(chunklog)).start < N_FRAMES
    /\ RangeOf(Len(chunklog)).end = content_frames

\* the chunk of entry e is over and it left no fragment: it was dropped as
\* non-speech, or its text has no '.', '?' or '!'
LeavesNoFragment(e) ==
    \/ e.status = "dropped"
    \/ (e.status \in { "sent", "send_failed" } /\ LastTerminal(e.text) = None)

\* C37: the priming context of a chunk depends only on the result of the
\* chunk just before it: after a chunk that is dropped as non-speech, or
\* whose text has no '.', '?' or '!', the next chunk is decoded with an empty
\* priming context, and a priming context is never more than the fragment
\* of that one chunk.
C37_PrimingFromPreviousChunkOnly ==
    \A i \in 1..Len(chunklog) :
        /\ i = 1 => chunklog[i].primed = <<>>
        /\ i > 1 =>
              /\ LeavesNoFragment(chunklog[i - 1]) => chunklog[i].primed = <<>>
              /\ \/ chunklog[i].primed = <<>>
                 \/ /\ LastTerminal(chunklog[i - 1].text) # None
                    /\ chunklog[i].primed = FragmentOf(chunklog[i - 1].text)

\* a chunk whose text ends in a fragment was dropped as non-speech and the
\* next chunk is being decoded
C37_Witness ==
    \E i \in 1..(Len(chunklog) - 1) :
        /\ chunklog[i].status = "dropped"
        /\ LastTerminal(chunklog[i].text) # None
        /\ FragmentOf(chunklog[i].text) # <<>>
        /\ chunklog[i + 1].primed = <<>>


\* the tokens session h has taken in so far (its n_past)
PastOf(s, h) == Unwrap(SlabGet(s, h.id).val).session.n_past

\* the call with handle h that starts or goes on in this step builds on the
\* state the session was left in
InferBuildsOn(h) ==
    /\ SlabGet(sessions', h.id).tag = "Occupied"
    /\ SlabGet(sessions', h.id).uid = h.uid
    /\ PastOf(sessions', h) >= PastOf(sessions, h)

\* C38: infer does not reset the session: the state one infer(h, ..) leaves,
\* whether it halted on the end of text, on the stop string or on the token
\* limit, is the state the next infer on the same handle starts from, and
\* only remove(h) discards it. Step by step: the session of a live handle h
\* changes only in a step of infer(h, ..), which adds to what is there, or of
\* remove(h); a return of infer changes nothing beyond its last token.
C38_SessionKeptAcrossInfers ==
    [][\A h \in LiveHandles :
          SlabGet(sessions', h.id) # SlabGet(sessions, h.id) =>
             \/ Remove(h) /\ SlabGet(sessions', h.id).tag # "Occupied"
             \/ /\ \E p \in PromptLens, max \in MaxTokenOpts, stop \in StopOpts :
                      Infer(h, p, max, stop)
                /\ InferBuildsOn(h)
             \/ /\ pc = "infer"
                /\ frame.via = h.uid
                /\ InferBuildsOn(h)]_vars

\* the same, for the calls made with the handles of live sessions only
C38_SessionKeptByLiveCalls ==
    [][(/\ \A h \in CallerHandles : h \notin LiveHandles =>
              /\ ~Remove(h)
              /\ ~\E p \in PromptLens, max \in MaxTokenOpts, stop \in StopOpts :
                     Infer(h, p, max, stop)
        /\ pc = "infer" => \E h \in LiveHandles : h.uid = frame.via)
       => \A h \in LiveHandles :
             SlabGet(sessions', h.id) # SlabGet(sessions, h.id) =>
                \/ Remove(h) /\ SlabGet(sessions', h.id).tag # "Occupied"
                \/ /\ \E p \in PromptLens, max \in MaxTokenOpts, stop \in StopOpts :
                         Infer(h, p, max, stop)
                   /\ InferBuildsOn(h)
                \/ /\ pc = "infer"
                   /\ frame.via = h.uid
                   /\ InferBuildsOn(h)]_vars


\* model.rs:379, the loop over the temperatures has ended without a return:
\* control stands at unreachable!()
AtUnreachable == fpc = "loop" /\ ti >= Len(TEMPERATURES)

\* C39: the unreachable!() at the end of decode_with_fallback is never
\* executed: with the non-empty list of temperatures every call returns from
\* inside the loop, at the latest in the iteration of the last temperature,
\* after at most one decode attempt per temperature.
C39_UnreachableNeverExecuted ==
    /\ Len(TEMPERATURES) > 0
    /\ ~AtUnreachable
    /\ Len(attempts) <= Len(TEMPERATURES)
    /\ \A k \in 1..Len(attempts) : attempts[k].t = TEMPERATURES[k]
    /\ fpc = "loop" => Len(attempts) = ti
    /\ fpc \in { "returned", "panicked" } =>
          /\ ti < Len(TEMPERATURES)
          /\ Len(attempts) = ti + 1
    /\ Len(attempts) = Len(TEMPERATURES) =>
          /\ fpc \in { "returned", "panicked" }
          /\ fpc = "panicked" <=> attempts[Len(attempts)].dr.kind = "panic"

\* every temperature failed, and the iteration of the last one returned its
\* error
C39_Witness ==
    /\ fpc = "returned"
    /\ ti = Len(TEMPERATURES) - 1
    /\ \A k \in 1..Len(attempts) : attempts[k].dr.kind = "err"
    /\ returned.kind = "err"

====
